---- MODULE Spec2Model ----
(***************************************************************************)
(* r3status: a relay between the i3status generator and the bar.           *)
(* R3Status::run spawns the generator, rewrites its header line so that    *)
(* click_events is true, and then forwards every later line.               *)
(*                                                                         *)
(* Text is modelled as a sequence of tokens (strings).  The token "\n" is  *)
(* the newline byte; a JSON object is "{", its entries, "}"; an entry is   *)
(* one token `"key":value`, interpreted through the table Entries.         *)
(***************************************************************************)
EXTENDS Integers, Sequences, FiniteSets, TLC

\* Number of read_line calls one run may make (caps the endless loop).
MaxReads == 5

NL == "\n"

-----------------------------------------------------------------------------
(* Option<T> and io::Result values *)

None == [some |-> FALSE, v |-> 0]
Some(x) == [some |-> TRUE, v |-> x]
NoneB == [some |-> FALSE, v |-> FALSE]
NoneS == [some |-> FALSE, v |-> ""]

NoResult == [kind |-> "none", err |-> ""]
Ok == [kind |-> "Ok", err |-> ""]
Err(e) == [kind |-> "Err", err |-> e]
\* io::Result<usize> of read_line: Ok(n) carries the number of bytes appended.
ReadResult(k, e, n) == [kind |-> k, err |-> e, n |-> n]

-----------------------------------------------------------------------------
(* The JSON text of a header, token by token.  A value is [t, n]: its JSON *)
(* type and, for numbers, numeric strings and booleans, its content.       *)

Entries ==
  { [tok |-> "\"version\":1",          key |-> "version",      t |-> "int",    n |-> 1],
    [tok |-> "\"version\":2",          key |-> "version",      t |-> "int",    n |-> 2],
    [tok |-> "\"version\":\"1\"",      key |-> "version",      t |-> "numstr", n |-> 1],
    [tok |-> "\"version\":1.5",        key |-> "version",      t |-> "float",  n |-> 1],
    [tok |-> "\"version\":null",       key |-> "version",      t |-> "null",   n |-> 0],
    [tok |-> "\"stop_signal\":10",     key |-> "stop_signal",  t |-> "int",    n |-> 10],
    [tok |-> "\"stop_signal\":19",     key |-> "stop_signal",  t |-> "int",    n |-> 19],
    [tok |-> "\"stop_signal\":null",   key |-> "stop_signal",  t |-> "null",   n |-> 0],
    [tok |-> "\"cont_signal\":12",     key |-> "cont_signal",  t |-> "int",    n |-> 12],
    [tok |-> "\"cont_signal\":18",     key |-> "cont_signal",  t |-> "int",    n |-> 18],
    [tok |-> "\"cont_signal\":null",   key |-> "cont_signal",  t |-> "null",   n |-> 0],
    [tok |-> "\"click_events\":true",  key |-> "click_events", t |-> "bool",   n |-> 1],
    [tok |-> "\"click_events\":false", key |-> "click_events", t |-> "bool",   n |-> 0],
    [tok |-> "\"click_events\":null",  key |-> "click_events", t |-> "null",   n |-> 0],
    [tok |-> "\"click_events\":1",     key |-> "click_events", t |-> "int",    n |-> 1] }

EntryTokens == { e.tok : e \in Entries }
EntryTable == [tok \in EntryTokens |-> CHOOSE e \in Entries : e.tok = tok]
EntryOf(tok) == EntryTable[tok]

\* json::from_str on the buffer: an object is "{" entries "}", and trailing
\* whitespace (the line's newline) is accepted.  Anything else is a syntax error.
StripNewline(s) ==
  IF Len(s) > 0 /\ s[Len(s)] = NL THEN SubSeq(s, 1, Len(s) - 1) ELSE s

IsObjectText(s) ==
  LET b == StripNewline(s) IN
    /\ Len(b) >= 2
    /\ b[1] = "{"
    /\ b[Len(b)] = "}"
    /\ \A i \in 2..(Len(b) - 1) : b[i] \in EntryTokens

\* The object's value for a key: the last entry with that key (the parser
\* keeps a map and later entries overwrite earlier ones); t = "absent" if none.
Lookup(s, key) ==
  LET b == StripNewline(s)
      idx == { i \in 2..(Len(b) - 1) : EntryOf(b[i]).key = key }
  IN IF idx = {} THEN [t |-> "absent", n |-> 0]
     ELSE LET i == CHOOSE i \in idx : \A j \in idx : j <= i
          IN [t |-> EntryOf(b[i]).t, n |-> EntryOf(b[i]).n]

\* Decoder::read_usize: integers and numeric strings decode, the rest fail.
ReadUsizeOk(v) == v.t \in {"int", "numstr"}
\* Decoder::read_bool: only booleans decode.
ReadBoolOk(v) == v.t = "bool"
\* An Option<T> decoder for which only an absent field is None.
IsNoneAbsentOnly(v) == v.t = "absent"

\* Option<T>: an absent field or a null is None.
IsNone(v) == v.t \in {"absent", "null"}

\* json::decode::<Header>: Ok(h) or a decode error.
DecodeHeader(s) ==
  IF ~IsObjectText(s) THEN [ok |-> FALSE, h |-> <<>>]
  ELSE LET ver  == Lookup(s, "version")
           stop == Lookup(s, "stop_signal")
           cont == Lookup(s, "cont_signal")
           clk  == Lookup(s, "click_events")
       IN IF /\ ReadUsizeOk(ver)
             /\ IsNone(stop) \/ ReadUsizeOk(stop)
             /\ IsNone(cont) \/ ReadUsizeOk(cont)
             /\ IsNone(clk) \/ ReadBoolOk(clk)
          THEN [ok |-> TRUE,
                h  |-> [version      |-> ver.n,
                        stop_signal  |-> IF IsNone(stop) THEN None ELSE Some(stop.n),
                        cont_signal  |-> IF IsNone(cont) THEN None ELSE Some(cont.n),
                        click_events |-> IF IsNone(clk) THEN NoneB ELSE Some(clk.n = 1)]]
          ELSE [ok |-> FALSE, h |-> <<>>]

\* The token the derived encoder emits for one field: numbers and booleans as
\* JSON literals, None as null.
EncodeUsize(key, n) ==
  (CHOOSE e \in Entries : e.key = key /\ e.t = "int" /\ e.n = n).tok
EncodeNull(key) ==
  (CHOOSE e \in Entries : e.key = key /\ e.t = "null").tok
EncodeBool(key, b) ==
  (CHOOSE e \in Entries : e.key = key /\ e.t = "bool" /\ e.n = (IF b THEN 1 ELSE 0)).tok

EncodeOptUsize(key, o) == IF o.some THEN EncodeUsize(key, o.v) ELSE EncodeNull(key)
EncodeOptBool(key, o) == IF o.some THEN EncodeBool(key, o.v) ELSE EncodeNull(key)

\* An encoder that leaves out the fields that are None.
EncodeHeaderOmitting(h) ==
  << "{", EncodeUsize("version", h.version) >>
  \o (IF h.stop_signal.some THEN << EncodeUsize("stop_signal", h.stop_signal.v) >> ELSE << >>)
  \o (IF h.cont_signal.some THEN << EncodeUsize("cont_signal", h.cont_signal.v) >> ELSE << >>)
  \o (IF h.click_events.some THEN << EncodeBool("click_events", h.click_events.v) >> ELSE << >>)
  \o << "}" >>

\* json::encode(&h): every field of the struct, in declaration order, no newline.
EncodeHeader(h) ==
  << "{",
     EncodeUsize("version", h.version),
     EncodeOptUsize("stop_signal", h.stop_signal),
     EncodeOptUsize("cont_signal", h.cont_signal),
     EncodeOptBool("click_events", h.click_events),
     "}" >>

\* A pipe_header that forwards the header's click_events as it came.
ClickEventsUntouched(h) == h

\* h.click_events = Some(true)
WithClickEvents(h) == [h EXCEPT !.click_events = Some(TRUE)]

-----------------------------------------------------------------------------
(* Line buffer and writer *)

\* self.buffer.ends_with("\n")
EndsWithNewline(b) == Len(b) > 0 /\ b[Len(b)] = NL

\* A flush_buffer that uses writeln! whatever the buffer ends in.
RecordAlwaysWriteln(b) == b \o <<NL>>

\* What flush_buffer hands to the writer: write!("{}") when the buffer ends
\* in a newline, writeln!("{}") otherwise.
Record(b) == IF EndsWithNewline(b) THEN b ELSE b \o <<NL>>

-----------------------------------------------------------------------------
(* What the generator may put on its stdout *)

OptTok(S) == {<<>>} \cup { <<t>> : t \in S }

\* First lines that are JSON objects: version 1 with every combination of
\* the optional fields present or absent, then other spellings (a numeric
\* string, null, a repeated key, another order) and undecodable objects.
ObjectBodies ==
  { <<"\"version\":1">> \o s \o c \o k :
      s \in OptTok({"\"stop_signal\":10"}),
      c \in OptTok({"\"cont_signal\":12"}),
      k \in OptTok({"\"click_events\":true", "\"click_events\":false"}) }
  \cup { << >>,
         << "\"version\":\"1\"" >>,
         << "\"version\":1.5" >>,
         << "\"version\":null" >>,
         << "\"stop_signal\":10" >>,
         << "\"version\":2", "\"stop_signal\":null" >>,
         << "\"version\":1", "\"version\":2" >>,
         << "\"click_events\":false", "\"version\":2" >>,
         << "\"version\":1", "\"cont_signal\":null", "\"click_events\":null" >>,
         << "\"version\":1", "\"click_events\":1" >> }

Payloads == { "[", "[{\"full_text\":\"100%\"}]", ",[{\"full_text\":\"101%\"}]" }

\* A line without its newline.
HeaderTexts == { <<"{">> \o b \o <<"}">> : b \in ObjectBodies } \cup { <<"{">>, <<"[">> }
BodyTexts == { <<p>> : p \in Payloads } \cup { <<>> }

Texts(ph) == IF ph = "header" THEN HeaderTexts ELSE BodyTexts

\* The lines a generator gives a client of the library: as a first line
\* the scenario's header or the array-open line, which is no header.
ClientHeaderTexts == { << "{", "\"version\":1", "}" >>, << "[" >> }
ClientBodyTexts == { << "[" >> }

-----------------------------------------------------------------------------
VARIABLES
  pc,       \* where the process is: "spawn", "read", "decode", "flush",
            \* "returned" (R3Status::run has returned), "panicked", "exited"
  phase,    \* which call of R3Status::run is executing: "header", "open", "first", "steady"
  reader,   \* self.reader is Some
  buffer,   \* self.buffer
  out,      \* the records self.writer has accepted, in order
  log,      \* the lines printed with println!
  result,   \* the value R3Status::run returned
  child,    \* the subprocess: "none", "running", "killed"
  kills,    \* number of i3s.kill() calls
  closed,   \* the generator's stdout has reached end-of-stream
  reads,    \* what each successful read_line call appended to the buffer
  lastRead, \* the value the last read_line call returned
  config_file, \* self.config_file
  args,     \* the launch arguments of the last Command::spawn()
  calls,    \* number of calls a client of the library has made on the R3Status
  last,     \* the last such call: its method and the value it returned
  codec     \* a value being taken through the JSON codecs

\* What the steps of R3Status::run and run() never touch.
client == << config_file, calls, last, codec >>

vars == << pc, phase, reader, buffer, out, log, result, child, kills, closed, reads, lastRead,
          config_file, args, calls, last, codec >>

\* A flush_buffer that forgets to clear the buffer.
BufferKept == buffer

\* self.buffer.clear(): the buffer's new value.
clear == <<>>

\* R3Status::new()
Init ==
  /\ pc = "spawn"
  /\ phase = "header"
  /\ reader = FALSE
  /\ buffer = <<>>
  /\ out = <<>>
  /\ log = <<>>
  /\ result = NoResult
  /\ child = "none"
  /\ kills = 0
  /\ closed = FALSE
  /\ reads = <<>>
  /\ lastRead = ReadResult("none", "", 0)
  /\ config_file = NoneS
  /\ args = <<>>
  /\ calls = 0
  /\ last = [op |-> "new", arg |-> "", ret |-> Ok]
  /\ codec = [op |-> "none"]

\* Command::spawn() fails, or gives a child with or without a stdout handle.
spawn_i3status == { "failed", "piped", "nostdout" }

\* A spawn_i3status that passes the configuration file with -c.
LaunchArgsWithConfig(config) == IF config.some THEN << "-c", config.v >> ELSE << >>

\* The arguments spawn_i3status gives the command: Command::new("i3status")
\* with no .arg() call; its _config parameter is not used.
LaunchArgs(config) == << >>

\* A run that calls pipe_header for every line.
AlwaysHeader(ph) == "header"

\* The order of the calls in R3Status::run: pipe_header, pipe_line,
\* pipe_line, then pipe_line in a loop.
NextPhase(ph) ==
  CASE ph = "header" -> "open"
    [] ph = "open"   -> "first"
    [] ph = "first"  -> "steady"
    [] OTHER         -> "steady"

\* R3Status::run up to the first read, and its else branch.
R3Status_run ==
  /\ pc = "spawn"
  /\ \E o \in spawn_i3status :
       CASE o = "failed" ->
              /\ result' = Err("spawn")
              /\ pc' = "returned"
              /\ UNCHANGED << reader, log, child, kills >>
         [] o = "piped" ->
              /\ child' = "running"
              /\ reader' = TRUE
              /\ pc' = "read"
              /\ UNCHANGED << result, log, kills >>
         [] OTHER ->
              /\ log' = log \o << "Failed to aquire handle to i3status stdout",
                                  "Killling i3status..." >>
              /\ kills' = kills + 1
              /\ \E killed \in BOOLEAN :
                   /\ child' = IF killed THEN "killed" ELSE "running"
                   /\ result' = IF killed THEN Ok ELSE Err("kill")
              /\ pc' = "returned"
              /\ UNCHANGED reader
  /\ args' = LaunchArgs(config_file)
  /\ UNCHANGED << phase, buffer, out, closed, reads, lastRead >>
  /\ UNCHANGED client

\* A pipe_header that forwards the line it read without decoding it.
AfterReadFlush(ph) == "flush"

\* After a successful read_line: pipe_header goes on to decode, pipe_line to flush.
AfterRead(ph) == IF ph = "header" THEN "decode" ELSE "flush"

\* read_line, called from pipe_header or pipe_line.  read_until appends the
\* bytes up to and including the next newline, or up to end-of-stream, and
\* returns their number: 0 at end-of-stream.  On an I/O error the bytes read
\* so far stay in the buffer and try! returns the error from run.
read_line ==
  /\ pc = "read"
  /\ Len(reads) < MaxReads
  /\ IF ~reader
     THEN /\ lastRead' = ReadResult("Err", "noreader", 0)
          /\ result' = Err("noreader")
          /\ pc' = "returned"
          /\ UNCHANGED << buffer, closed, reads >>
     ELSE \/ \E t \in Texts(phase) :
               /\ ~closed
               /\ buffer' = buffer \o t \o <<NL>>
               /\ reads' = Append(reads, t \o <<NL>>)
               /\ lastRead' = ReadResult("Ok", "", Len(t) + 1)
               /\ pc' = AfterRead(phase)
               /\ UNCHANGED << closed, result >>
          \/ \E t \in Texts(phase) \cup {<<>>} :
               /\ ~closed
               /\ closed' = TRUE
               /\ buffer' = buffer \o t
               /\ reads' = Append(reads, t)
               /\ lastRead' = ReadResult("Ok", "", Len(t))
               /\ pc' = AfterRead(phase)
               /\ UNCHANGED result
          \/ /\ closed
             /\ reads' = Append(reads, <<>>)
             /\ lastRead' = ReadResult("Ok", "", 0)
             /\ pc' = AfterRead(phase)
             /\ UNCHANGED << buffer, closed, result >>
          \/ \E t \in Texts(phase) \cup {<<>>} :
               /\ ~closed
               /\ buffer' = buffer \o t
               /\ lastRead' = ReadResult("Err", "read", 0)
               /\ result' = Err("read")
               /\ pc' = "returned"
               /\ UNCHANGED << closed, reads >>
  /\ UNCHANGED << phase, reader, out, log, child, kills, args >>
  /\ UNCHANGED client

\* pipe_header between its read and its flush: decode, set click_events,
\* encode.  unwrap() panics on a decode error.
pipe_header ==
  /\ pc = "decode"
  /\ LET d == DecodeHeader(buffer) IN
       IF d.ok
       THEN /\ buffer' = EncodeHeader(WithClickEvents(d.h))
            /\ pc' = "flush"
       ELSE /\ pc' = "panicked"
            /\ UNCHANGED buffer
  /\ UNCHANGED << phase, reader, out, log, result, child, kills, closed, reads, lastRead, args >>
  /\ UNCHANGED client

\* A flush_buffer whose caller tries the write again after a failure.
flush_buffer_retry ==
  /\ pc = "flush"
  /\ \/ /\ out' = Append(out, Record(buffer))
        /\ buffer' = clear
        /\ phase' = NextPhase(phase)
        /\ pc' = "read"
        /\ UNCHANGED result
     \/ /\ result' = Err("write")
        /\ pc' = "flush"
        /\ UNCHANGED << out, buffer, phase >>
  /\ UNCHANGED << reader, log, child, kills, closed, reads, lastRead, args >>
  /\ UNCHANGED client

\* A flush_buffer whose failure makes run kill the subprocess before it returns.
flush_buffer_kills ==
  /\ pc = "flush"
  /\ \/ /\ out' = Append(out, Record(buffer))
        /\ buffer' = clear
        /\ phase' = NextPhase(phase)
        /\ pc' = "read"
        /\ UNCHANGED << result, child, kills >>
     \/ /\ result' = Err("write")
        /\ pc' = "returned"
        /\ child' = "killed"
        /\ kills' = kills + 1
        /\ UNCHANGED << out, buffer, phase >>
  /\ UNCHANGED << reader, log, closed, reads, lastRead, args >>
  /\ UNCHANGED client

\* flush_buffer: the write succeeds and the buffer is cleared, or it fails
\* and try! returns the error from run with the buffer as it was.
flush_buffer ==
  /\ pc = "flush"
  /\ \/ /\ out' = Append(out, Record(buffer))
        /\ buffer' = clear
        /\ phase' = NextPhase(phase)
        /\ pc' = "read"
        /\ UNCHANGED result
     \/ /\ result' = Err("write")
        /\ pc' = "returned"
        /\ UNCHANGED << out, buffer, phase >>
  /\ UNCHANGED << reader, log, child, kills, closed, reads, lastRead, args >>
  /\ UNCHANGED client

\* A run() that prints its diagnostic whatever R3Status::run returned, and a
\* second line for errors.
ReportAlways(r) ==
  IF r.kind = "Err" THEN << "Failed to spawn r3status: " \o r.err, "exiting" >>
  ELSE << "Failed to spawn r3status: " >>

\* if let Err(e) = r3.run() { println!(...) }: what run() prints for a result.
Report(r) ==
  IF r.kind = "Err" THEN << "Failed to spawn r3status: " \o r.err >> ELSE <<>>

\* The free function run(): print the error R3Status::run returned, if any.
run ==
  /\ pc = "returned"
  /\ log' = log \o Report(result)
  /\ pc' = "exited"
  /\ UNCHANGED << phase, reader, buffer, out, result, child, kills, closed, reads, lastRead, args >>
  /\ UNCHANGED client

Next == R3Status_run \/ read_line \/ pipe_header \/ flush_buffer \/ run

Spec == Init /\ [][Next]_vars

-----------------------------------------------------------------------------
(* The public methods of R3Status called one at a time by a client of the  *)
(* library.  pc = "idle" between two calls; a call of run goes through the *)
(* steps above and comes back to "idle" when run returns.                  *)

\* Number of calls the client makes.
MaxCalls == 2
\* Number of read_line calls, inside run or direct, in the client's session.
MaxClientReads == 2

Configs == { "i3status.conf" }
Msgs == { "no data", "say \"hi\"" }

\* escape_str of the JSON encoder, for the messages above.
Escape(s) == IF s = "say \"hi\"" THEN "say \\\"hi\\\"" ELSE s
JsonString(s) == "\"" \o Escape(s) \o "\""
Field(key, text) == "\"" \o key \o "\":" \o text
NullField(key) == Field(key, "null")

\* Block { full_text: msg.to_string(), .. Default::default() }
DefaultBlock(msg) ==
  [ full_text |-> msg, short_text |-> NoneS, color |-> NoneS, min_width |-> None,
    align |-> NoneS, urgent |-> NoneB, name |-> NoneS, instance |-> NoneS,
    separator |-> NoneB, separator_block_width |-> None ]

\* json::encode(&vec![m]) when every optional field of m is None: the
\* derived encoder emits every field, None as null.
EncodeBlocks(m) ==
  << "[", "{",
     Field("full_text", JsonString(m.full_text)),
     NullField("short_text"), NullField("color"), NullField("min_width"),
     NullField("align"), NullField("urgent"), NullField("name"),
     NullField("instance"), NullField("separator"),
     NullField("separator_block_width"),
     "}", "]" >>

\* A write_msg that ends the separator with a newline.
SeparatorLine == << ",", NL >>

\* self.write_str(",")
Separator == << "," >>

\* A read_line that takes a missing reader for an empty stream.
MissingReaderIsEmpty(b, isClosed) ==
  [ret |-> ReadResult("Ok", "", 0), buffer |-> b, closed |-> isClosed, got |-> <<>>, ok |-> TRUE]

\* The else branch of read_line: no reader, an error, nothing touched.
MissingReader(b, isClosed) ==
  [ret |-> ReadResult("Err", "noreader", 0), buffer |-> b, closed |-> isClosed,
   got |-> <<>>, ok |-> FALSE]

\* read_line as a function of the buffer, the reader and the stream: the
\* value returned, the buffer afterwards, whether the stream is then at its
\* end, and the bytes a successful call appended.
ReadLineOutcomes(b, hasReader, isClosed, texts) ==
  IF ~hasReader
  THEN { MissingReader(b, isClosed) }
  ELSE IF isClosed
  THEN { [ret |-> ReadResult("Ok", "", 0), buffer |-> b, closed |-> TRUE,
          got |-> <<>>, ok |-> TRUE] }
  ELSE { [ret |-> ReadResult("Ok", "", Len(t) + 1), buffer |-> b \o t \o <<NL>>,
          closed |-> FALSE, got |-> t \o <<NL>>, ok |-> TRUE] : t \in texts }
       \cup
       { [ret |-> ReadResult("Ok", "", Len(t)), buffer |-> b \o t,
          closed |-> TRUE, got |-> t, ok |-> TRUE] : t \in texts \cup {<<>>} }
       \cup
       { [ret |-> ReadResult("Err", "read", 0), buffer |-> b \o t,
          closed |-> FALSE, got |-> <<>>, ok |-> FALSE] : t \in texts \cup {<<>>} }

\* A flush_buffer that clears the buffer whether or not the write succeeded.
FlushClearsOnFailure(b) ==
  { [ret |-> Ok, buffer |-> clear, written |-> << Record(b) >>],
    [ret |-> Err("write"), buffer |-> clear, written |-> << >>] }

\* flush_buffer as a function of the buffer: the write succeeds and the
\* buffer is cleared, or try! returns the error before self.clear().
FlushOutcomes(b) ==
  { [ret |-> Ok, buffer |-> clear, written |-> << Record(b) >>],
    [ret |-> Err("write"), buffer |-> b, written |-> << >>] }

Returned(r) == [kind |-> r.kind, err |-> r.err]

\* R3Status::new(), in the hands of a client.
ClientInit ==
  /\ pc = "idle"
  /\ phase = "header"
  /\ reader = FALSE
  /\ buffer = <<>>
  /\ out = <<>>
  /\ log = <<>>
  /\ result = NoResult
  /\ child = "none"
  /\ kills = 0
  /\ closed = FALSE
  /\ reads = <<>>
  /\ lastRead = ReadResult("none", "", 0)
  /\ config_file = NoneS
  /\ args = <<>>
  /\ calls = 0
  /\ last = [op |-> "new", arg |-> "", ret |-> Ok]
  /\ codec = [op |-> "none"]

Called(op, arg, ret) ==
  /\ pc = "idle"
  /\ calls < MaxCalls
  /\ calls' = calls + 1
  /\ last' = [op |-> op, arg |-> arg, ret |-> ret]

\* r3.config_file(c)
call_config_file ==
  /\ \E c \in Configs :
       /\ Called("config_file", c, Ok)
       /\ config_file' = [some |-> TRUE, v |-> c]
  /\ UNCHANGED << pc, phase, reader, buffer, out, log, result, child, kills, closed, reads,
                  lastRead, args, codec >>

\* r3.clear()
call_clear ==
  /\ Called("clear", "", Ok)
  /\ buffer' = clear
  /\ UNCHANGED << pc, phase, reader, out, log, result, child, kills, closed, reads,
                  lastRead, config_file, args, codec >>

\* r3.read_line()
call_read_line ==
  /\ Len(reads) < MaxClientReads
  /\ \E r \in ReadLineOutcomes(buffer, reader, closed, ClientBodyTexts) :
       /\ Called("read_line", "", Returned(r.ret))
       /\ lastRead' = r.ret
       /\ buffer' = r.buffer
       /\ closed' = r.closed
       /\ reads' = IF r.ok THEN Append(reads, r.got) ELSE reads
  /\ UNCHANGED << pc, phase, reader, out, log, result, child, kills, config_file, args, codec >>

\* r3.flush_buffer()
call_flush_buffer ==
  /\ \E f \in FlushOutcomes(buffer) :
       /\ Called("flush_buffer", "", f.ret)
       /\ buffer' = f.buffer
       /\ out' = out \o f.written
  /\ UNCHANGED << pc, phase, reader, log, result, child, kills, closed, reads, lastRead,
                  config_file, args, codec >>

\* r3.write_str(","): write_all on the writer, which succeeds or fails.
call_write_str ==
  /\ \E ok \in BOOLEAN :
       /\ Called("write_str", ",", IF ok THEN Ok ELSE Err("write"))
       /\ out' = IF ok THEN Append(out, << "," >>) ELSE out
  /\ UNCHANGED << pc, phase, reader, buffer, log, result, child, kills, closed, reads,
                  lastRead, config_file, args, codec >>

\* r3.write_msg(msg): the buffer becomes the encoded message, flush_buffer
\* writes it, then write_str writes the separator.
call_write_msg ==
  /\ \E msg \in Msgs :
       \E f \in FlushOutcomes(EncodeBlocks(DefaultBlock(msg))) :
         \E ok \in BOOLEAN :
           /\ f.ret.kind = "Err" => ok
           /\ Called("write_msg", msg,
                     IF f.ret.kind = "Err" THEN f.ret
                     ELSE IF ok THEN Ok ELSE Err("write"))
           /\ buffer' = f.buffer
           /\ out' = IF f.ret.kind = "Ok" /\ ok
                     THEN out \o f.written \o << Separator >>
                     ELSE out \o f.written
  /\ UNCHANGED << pc, phase, reader, log, result, child, kills, closed, reads, lastRead,
                  config_file, args, codec >>

\* r3.pipe_line(): read_line, then flush_buffer unless the read failed.
call_pipe_line ==
  /\ Len(reads) < MaxClientReads
  /\ \E r \in ReadLineOutcomes(buffer, reader, closed, ClientBodyTexts) :
       /\ lastRead' = r.ret
       /\ closed' = r.closed
       /\ reads' = IF r.ok THEN Append(reads, r.got) ELSE reads
       /\ IF r.ok
          THEN \E f \in FlushOutcomes(r.buffer) :
                 /\ Called("pipe_line", "", f.ret)
                 /\ buffer' = f.buffer
                 /\ out' = out \o f.written
          ELSE /\ Called("pipe_line", "", Returned(r.ret))
               /\ buffer' = r.buffer
               /\ UNCHANGED out
  /\ UNCHANGED << pc, phase, reader, log, result, child, kills, config_file, args, codec >>

\* r3.pipe_header(): read_line, decode (unwrap panics), set click_events,
\* encode, flush_buffer.
call_pipe_header ==
  /\ Len(reads) < MaxClientReads
  /\ \E r \in ReadLineOutcomes(buffer, reader, closed, ClientHeaderTexts) :
       /\ pc = "idle"
       /\ calls < MaxCalls
       /\ calls' = calls + 1
       /\ lastRead' = r.ret
       /\ closed' = r.closed
       /\ reads' = IF r.ok THEN Append(reads, r.got) ELSE reads
       /\ IF ~r.ok
          THEN /\ last' = [op |-> "pipe_header", arg |-> "", ret |-> Returned(r.ret)]
               /\ buffer' = r.buffer
               /\ UNCHANGED << out, pc >>
          ELSE IF ~DecodeHeader(r.buffer).ok
          THEN /\ last' = [op |-> "pipe_header", arg |-> "", ret |-> NoResult]
               /\ buffer' = r.buffer
               /\ pc' = "panicked"
               /\ UNCHANGED out
          ELSE \E f \in FlushOutcomes(EncodeHeader(WithClickEvents(DecodeHeader(r.buffer).h))) :
                 /\ last' = [op |-> "pipe_header", arg |-> "", ret |-> f.ret]
                 /\ buffer' = f.buffer
                 /\ out' = out \o f.written
                 /\ UNCHANGED pc
  /\ UNCHANGED << phase, reader, log, result, child, kills, config_file, args, codec >>

\* r3.run() is called: R3Status::run starts at its first statement.
call_run ==
  /\ Called("run", "", NoResult)
  /\ pc' = "spawn"
  /\ phase' = "header"
  /\ result' = NoResult
  /\ UNCHANGED << reader, buffer, out, log, child, kills, closed, reads, lastRead,
                  config_file, args, codec >>

\* R3Status::run returns to the client.
run_returns ==
  /\ pc = "returned"
  /\ pc' = "idle"
  /\ last' = [op |-> "run", arg |-> "", ret |-> result]
  /\ UNCHANGED << phase, reader, buffer, out, log, result, child, kills, closed, reads,
                  lastRead, config_file, args, calls, codec >>

\* The generator of the client's session: few lines, one of two header lines.
ClientLimit ==
  /\ Len(reads) <= MaxClientReads
  /\ \A i \in 1..Len(reads) :
       StripNewline(reads[i]) \in ClientHeaderTexts \cup ClientBodyTexts \cup {<<>>}
  /\ lastRead.err = "read" =>
       \E t \in ClientBodyTexts \cup {<<>>} :
         /\ Len(buffer) >= Len(t)
         /\ SubSeq(buffer, Len(buffer) - Len(t) + 1, Len(buffer)) = t
         /\ \A i \in 1..(Len(buffer) - Len(t)) : buffer[i] \notin Payloads \ {"["}

RunStep == R3Status_run \/ read_line \/ pipe_header \/ flush_buffer

ClientNext ==
  \/ call_config_file
  \/ call_clear
  \/ call_read_line
  \/ call_flush_buffer
  \/ call_write_str
  \/ call_write_msg
  \/ call_pipe_line
  \/ call_pipe_header
  \/ call_run
  \/ run_returns
  \/ (RunStep /\ ClientLimit')

ClientSpec == ClientInit /\ [][ClientNext]_vars

-----------------------------------------------------------------------------
(* The JSON codecs on their own: Alignment and Header values taken through *)
(* json::decode and json::encode                                           *)

\* Strings offered to the Alignment decoder, and JSON texts that are no string.
AlignmentStrings ==
  { "right", "left", "center", "middle", "Right", "CENTER", "centre", "" }
OtherJsonTexts == { "1", "null", "true", "right" }
AlignmentTexts == { JsonString(t) : t \in AlignmentStrings } \cup OtherJsonTexts

\* Decoder::read_str on a JSON text: the content of a JSON string, an error
\* for any other text.
ReadStr(text) ==
  IF \E t \in AlignmentStrings : JsonString(t) = text
  THEN [ok |-> TRUE, s |-> CHOOSE t \in AlignmentStrings : JsonString(t) = text]
  ELSE [ok |-> FALSE, s |-> ""]

\* d.error(&format!(..)): the message is the offending string between grave
\* accents, followed by the text; the two parts are kept apart here.
NotAnAlignment(other) == [quoted |-> other, text |-> " is not a valid alignment"]
NoError == [quoted |-> "", text |-> ""]
ExpectedString == [quoted |-> "", text |-> "expected String"]

\* <Alignment as Decodable>::decode
AlignmentDecode(text) ==
  LET r == ReadStr(text) IN
    IF ~r.ok THEN [ok |-> FALSE, v |-> "", err |-> ExpectedString]
    ELSE CASE r.s = "right"  -> [ok |-> TRUE, v |-> "Right", err |-> NoError]
           [] r.s = "left"   -> [ok |-> TRUE, v |-> "Left", err |-> NoError]
           [] r.s = "center" -> [ok |-> TRUE, v |-> "Center", err |-> NoError]
           [] OTHER          -> [ok |-> FALSE, v |-> "", err |-> NotAnAlignment(r.s)]

\* An encoder that emits the variant's name as it is spelled in the enum.
AlignmentVariantName(a) == a

\* The string <Alignment as Encodable>::encode hands to emit_str.
AlignmentName(a) ==
  CASE a = "Right"  -> "right"
    [] a = "Left"   -> "left"
    [] a = "Center" -> "center"

\* json::encode(&a): emit_str writes the name as a JSON string.
AlignmentEncode(a) == JsonString(AlignmentName(a))

\* Header values: every combination of present and absent optional fields.
Versions == {1, 2}
StopSignals == {None, Some(10), Some(19)}
ContSignals == {None, Some(12), Some(18)}
ClickEvents == {NoneB, Some(TRUE), Some(FALSE)}
Headers ==
  [version : Versions, stop_signal : StopSignals, cont_signal : ContSignals,
   click_events : ClickEvents]

decode_alignment ==
  /\ \E text \in AlignmentTexts :
       codec' = [op |-> "decode_alignment", text |-> text, res |-> AlignmentDecode(text)]
  /\ UNCHANGED << pc, phase, reader, buffer, out, log, result, child, kills, closed,
                  reads, lastRead, config_file, args, calls, last >>

encode_alignment ==
  /\ codec.op = "decode_alignment"
  /\ codec.res.ok
  /\ codec' = [op |-> "encode_alignment", text |-> codec.text, v |-> codec.res.v,
               out |-> AlignmentEncode(codec.res.v)]
  /\ UNCHANGED << pc, phase, reader, buffer, out, log, result, child, kills, closed,
                  reads, lastRead, config_file, args, calls, last >>

\* h.click_events = Some(true) on a header value
force_click_events ==
  /\ \E h \in Headers :
       codec' = [op |-> "force_click_events", orig |-> h, h |-> WithClickEvents(h)]
  /\ UNCHANGED << pc, phase, reader, buffer, out, log, result, child, kills, closed,
                  reads, lastRead, config_file, args, calls, last >>

encode_header ==
  /\ codec.op = "force_click_events"
  /\ codec' = [op |-> "encode_header", orig |-> codec.orig, h |-> codec.h,
               text |-> EncodeHeader(codec.h)]
  /\ UNCHANGED << pc, phase, reader, buffer, out, log, result, child, kills, closed,
                  reads, lastRead, config_file, args, calls, last >>

decode_header ==
  /\ codec.op = "encode_header"
  /\ codec' = [op |-> "decode_header", orig |-> codec.orig, h |-> codec.h,
               text |-> codec.text, res |-> DecodeHeader(codec.text)]
  /\ UNCHANGED << pc, phase, reader, buffer, out, log, result, child, kills, closed,
                  reads, lastRead, config_file, args, calls, last >>

CodecNext ==
  \/ decode_alignment
  \/ encode_alignment
  \/ force_click_events
  \/ encode_header
  \/ decode_header

CodecSpec == ClientInit /\ [][CodecNext]_vars

-----------------------------------------------------------------------------
(* Derived views of a run *)

\* The lines the generator produced and the relay has read, in order: a
\* read_line call that met end-of-stream appended nothing and is no line.
GenLines == SelectSeq(reads, LAMBDA r : r # <<>>)

\* The most recent read_line call found the stream at its end.
AtEndOfStream == closed /\ Len(reads) > 0 /\ reads[Len(reads)] = <<>>

RunEnded == pc \in {"returned", "exited"}

NewlineCount(s) == Cardinality({ i \in 1..Len(s) : s[i] = NL })

-----------------------------------------------------------------------------
(* Claims *)

\* C1: forwarding is volume-preserving, also once the generator has closed
\* its stdout: the relay never writes a record (such as an empty line) that
\* does not correspond to a line the generator produced, so the consumer
\* sees no more records than the generator produced lines.
C1_VolumePreserving ==
  /\ Len(out) <= Len(GenLines)
  /\ \A i \in 1..Len(out) : out[i] # <<NL>> \/ (i <= Len(GenLines) /\ GenLines[i] = <<NL>>)

\* C2: when the generator's stdout is at end-of-stream, read_line reports an
\* error and run has returned that error: the relay is never found still
\* running after a read_line call that met end-of-stream.
C2_EndOfStreamEndsRun ==
  AtEndOfStream => (RunEnded /\ result.kind = "Err")

\* The header line the generator sent, and the header record the relay wrote.
HeaderIn == DecodeHeader(reads[1])
HeaderOut == DecodeHeader(out[1])
Tokens(s) == { s[i] : i \in 1..Len(s) }

\* C3: for every decodable header line, whatever its click_events (absent,
\* null, false or true), the header record the relay forwards carries
\* click_events = true and the version, stop_signal and cont_signal of the
\* generator's header line.
C3_HeaderRewritten ==
  Len(out) >= 1 =>
    LET hin == HeaderIn
        hout == HeaderOut
    IN /\ hin.ok
       /\ hout.ok
       /\ hout.h.click_events = Some(TRUE)
       /\ "\"click_events\":true" \in Tokens(out[1])
       /\ hout.h.version = hin.h.version
       /\ hout.h.stop_signal = hin.h.stop_signal
       /\ hout.h.cont_signal = hin.h.cont_signal

\* A header with click_events false and both signals present has been forwarded.
C3_Witness ==
  /\ Len(out) >= 1
  /\ HeaderIn.ok
  /\ HeaderIn.h.click_events = Some(FALSE)
  /\ HeaderIn.h.stop_signal = Some(10)
  /\ HeaderIn.h.cont_signal = Some(12)
  /\ HeaderOut.h.click_events = Some(TRUE)

\* C4: every line read from the generator after the header is written to the
\* consumer once, at its own position, byte-identical but for one newline
\* appended when it lacks one; nothing is dropped, duplicated or reordered,
\* and at most one line read is not yet written (it is in the buffer, or
\* its write failed and ended the run).
C4_OrderPreserving ==
  /\ \A i \in 2..Len(GenLines) :
       i <= Len(out) =>
         out[i] = IF GenLines[i][Len(GenLines[i])] = NL
                  THEN GenLines[i]
                  ELSE GenLines[i] \o <<NL>>
  /\ Len(GenLines) <= Len(out) + 1
  /\ Len(GenLines) = Len(out) + 1 =>
       \/ pc \in {"decode", "flush", "panicked"}
       \/ result = Err("write")

\* Three lines after the header have been read and written, the last two different.
C4_Witness ==
  /\ Len(GenLines) >= 4
  /\ Len(out) >= 4
  /\ GenLines[3] # GenLines[4]
  /\ out[3] = GenLines[3]
  /\ out[4] = GenLines[4]

\* C5: every record flush_buffer writes ends in exactly one newline: what
\* was read with its newline is written as it is, what was read without one
\* (the last bytes before end-of-stream, the encoded header) gets exactly
\* one newline appended and loses no byte.
C5_OneNewlinePerRecord ==
  \A i \in 1..Len(out) :
    /\ out[i][Len(out[i])] = NL
    /\ NewlineCount(out[i]) = 1
    /\ i >= 2 =>
         /\ EndsWithNewline(reads[i]) => out[i] = reads[i]
         /\ ~EndsWithNewline(reads[i]) => out[i] = reads[i] \o <<NL>>

\* The stream ended in bytes without a newline, and they were written.
C5_Witness ==
  \E i \in 2..Len(out) :
    /\ closed
    /\ reads[i] # <<>>
    /\ ~EndsWithNewline(reads[i])
    /\ out[i] = reads[i] \o <<NL>>

\* The generator's output in the end-to-end scenario of the specification.
ScenarioIn ==
  << << "{", "\"version\":1", "}", NL >>,
     << "[", NL >>,
     << "[{\"full_text\":\"100%\"}]", NL >>,
     << ",[{\"full_text\":\"101%\"}]", NL >> >>

C7_DecodeErrorReturned ==
  /\ pc # "panicked"
  /\ (Len(reads) >= 1 /\ ~HeaderIn.ok /\ pc # "decode") =>
       (RunEnded /\ result.kind = "Err")

\* C8: when the subprocess is spawned without a stdout handle,
\* R3Status::run tries to kill it, writes nothing and returns an Err, also
\* when the kill succeeds.
C8_NoStdoutIsFailure ==
  (kills > 0 /\ RunEnded) =>
    /\ out = <<>>
    /\ reads = <<>>
    /\ result.kind = "Err"

\* C9: in a run that has the generator's stdout the phases happen once each
\* and in order: the first record written is the rewritten header, every
\* later record (array-open line, first element, steady state) is what the
\* read before it returned, forwarded without decoding; only the first read
\* is ever decoded.
C9_PhasesInOrder ==
  reader =>
    /\ phase = (CASE Len(out) = 0 -> "header"
                  [] Len(out) = 1 -> "open"
                  [] Len(out) = 2 -> "first"
                  [] OTHER        -> "steady")
    /\ pc \in {"decode", "panicked"} => (Len(reads) = 1 /\ out = <<>>)
    /\ Len(out) >= 1 =>
         /\ IsObjectText(out[1])
         /\ HeaderOut.h.click_events = Some(TRUE)
    /\ \A i \in 2..Len(out) : StripNewline(out[i]) = StripNewline(reads[i])

\* The header, the array-open line, the first element and one steady-state
\* line have been written, the header rewritten and the others verbatim.
C9_Witness ==
  /\ reader
  /\ phase = "steady"
  /\ Len(out) = 4
  /\ HeaderOut.ok
  /\ out[2] = << "[", NL >>
  /\ out[4] = << ",[{\"full_text\":\"101%\"}]", NL >>

\* C10: if spawning fails, R3Status::run returns the spawn error without
\* reading or writing anything, no kill is attempted, and run prints
\* exactly one diagnostic line and terminates.
C10_SpawnFailure ==
  result = Err("spawn") =>
    /\ out = <<>>
    /\ reads = <<>>
    /\ lastRead.kind = "none"
    /\ buffer = <<>>
    /\ ~reader
    /\ kills = 0
    /\ RunEnded
    /\ pc = "returned" => log = <<>>
    /\ pc = "exited" => log = << "Failed to spawn r3status: spawn" >>

\* The spawn failed and run has printed its diagnostic and finished.
C10_Witness ==
  /\ result = Err("spawn")
  /\ pc = "exited"
  /\ Len(log) = 1

-----------------------------------------------------------------------------
(* Claims about failures inside R3Status::run *)

\* C11: if the header exchange fails (the header read fails, or the header
\* line cannot be decoded) the relay writes no record at all: no header, no
\* array-open line, no later line.
C11_NothingAfterFailedHeader ==
  /\ (reads = <<>> /\ result.kind = "Err") => out = <<>>
  /\ (Len(reads) >= 1 /\ ~HeaderIn.ok) => (out = <<>> /\ pc \in {"decode", "panicked"})

\* The first line could not be decoded, the run is over and nothing was written.
C11_Witness ==
  /\ Len(reads) = 1
  /\ reads[1] # <<>>
  /\ ~HeaderIn.ok
  /\ pc = "panicked"
  /\ out = <<>>

\* C12: there is no retry.  A failed read_line or flush_buffer makes run
\* return that error at once, and once run has an error it reads nothing
\* more from the generator and writes nothing more to the consumer.
C12_NoRetry ==
  [][ /\ (lastRead'.kind = "Err" /\ lastRead.kind # "Err") =>
           (result' = Err(lastRead'.err) /\ pc' = "returned" /\ out' = out)
      /\ (result'.err = "write" /\ result.kind # "Err") =>
           (pc = "flush" /\ pc' = "returned" /\ out' = out /\ buffer' = buffer)
      /\ result.kind = "Err" =>
           /\ result' = result
           /\ reads' = reads
           /\ lastRead' = lastRead
           /\ buffer' = buffer
           /\ out' = out
           /\ pc' = "exited"
    ]_vars

\* A write failed after two records were written, and run has returned it.
C12_Witness ==
  /\ result = Err("write")
  /\ pc = "exited"
  /\ Len(out) = 2
  /\ Len(reads) = 3

\* C14: throughout R3Status::run the buffer is empty right before every
\* read_line and holds at most one record right after it: what that read
\* returned, with at most one newline, which is then its last byte.  So a
\* successful flush_buffer has left the buffer empty.
C14_OneLineInFlight ==
  /\ pc = "read" => buffer = <<>>
  /\ pc \in {"decode", "flush"} /\ phase # "header" => buffer = reads[Len(reads)]
  /\ pc = "decode" => buffer = reads[1]
  /\ NewlineCount(buffer) <= 1
  /\ NewlineCount(buffer) = 1 => EndsWithNewline(buffer)

\* A steady-state line is in the buffer, three records having been flushed.
C14_Witness ==
  /\ pc = "flush"
  /\ phase = "steady"
  /\ Len(out) = 3
  /\ buffer = << ",[{\"full_text\":\"101%\"}]", NL >>

\* C19: R3Status::run calls kill only where the stdout handle is missing.
\* Once the handle is acquired no kill is ever made: when run ends on a
\* failed read, a failed write or a failed header exchange, the subprocess
\* is left running.
C19_KillOnlyWithoutStdout ==
  /\ kills <= 1
  /\ kills > 0 => (~reader /\ reads = <<>> /\ out = <<>> /\ lastRead.kind = "none")
  /\ reader => (kills = 0 /\ child = "running")

\* Run has ended on a failed read with the handle acquired; the child runs on.
C19_Witness ==
  /\ reader
  /\ pc = "exited"
  /\ result = Err("read")
  /\ Len(out) >= 1
  /\ child = "running"
  /\ kills = 0

-----------------------------------------------------------------------------
(* Claims about the methods called by a client *)

ClientCall(op) == calls' = calls + 1 /\ last'.op = op

\* The record write_msg is to write for a message: a one-element array
\* holding a block with that full_text and every other field at its default.
MsgRecord(msg) ==
  << "[", "{",
     IF msg = "no data" THEN "\"full_text\":\"no data\""
     ELSE "\"full_text\":\"say \\\"hi\\\"\"",
     "\"short_text\":null", "\"color\":null", "\"min_width\":null", "\"align\":null",
     "\"urgent\":null", "\"name\":null", "\"instance\":null", "\"separator\":null",
     "\"separator_block_width\":null",
     "}", "]", NL >>

\* C13: write_msg(text) writes two things in this order: one record, the
\* one-element array of a default block whose full_text is text, ended by
\* exactly one newline, then a bare comma without a newline; when it
\* succeeds the buffer is empty.  When it fails it has written nothing, or
\* the record alone.
C13_WriteMsg ==
  [][ ClientCall("write_msg") =>
        /\ NewlineCount(MsgRecord(last'.arg)) = 1
        /\ last'.ret = Ok =>
             /\ out' = out \o << MsgRecord(last'.arg), << "," >> >>
             /\ buffer' = <<>>
        /\ last'.ret # Ok =>
             \/ out' = out /\ buffer' \o <<NL>> = MsgRecord(last'.arg)
             \/ out' = out \o << MsgRecord(last'.arg) >> /\ buffer' = <<>>
    ]_vars

\* write_msg("no data") has succeeded: the record, then the comma.
C13_Witness ==
  /\ last = [op |-> "write_msg", arg |-> "no data", ret |-> Ok]
  /\ Len(out) = 2
  /\ out[1] = MsgRecord("no data")
  /\ out[2] = << "," >>
  /\ buffer = <<>>

\* C15: a path set with config_file is forwarded as a launch argument when
\* run spawns the generator; with no path set no such argument is passed.
C15_ConfigForwarded ==
  pc \in {"read", "decode", "flush"} =>
    /\ config_file.some => config_file.v \in Tokens(args)
    /\ ~config_file.some => args = <<>>

\* C18: read_line without a reader returns an error and has no effect, so
\* pipe_line and pipe_header called before run fail too and write nothing;
\* inside R3Status::run that error cannot happen, the reader being attached
\* before the first read.
C18_NoReader ==
  /\ [](/\ result.err # "noreader"
        /\ pc \in {"read", "decode", "flush"} => reader)
  /\ [][ (~reader /\ (\/ ClientCall("read_line")
                      \/ ClientCall("pipe_line")
                      \/ ClientCall("pipe_header"))) =>
           /\ last'.ret = Err("noreader")
           /\ buffer' = buffer
           /\ out' = out
           /\ reads' = reads
           /\ closed' = closed
           /\ pc' = "idle"
       ]_vars

\* pipe_line was called on a buffer holding a message and no reader.
C18_Witness ==
  /\ last = [op |-> "pipe_line", arg |-> "", ret |-> Err("noreader")]
  /\ ~reader
  /\ buffer # <<>>
  /\ out = <<>>

\* C20: a failed write in flush_buffer returns the error and leaves the
\* buffer as it was (it is cleared only after a successful write), so a
\* read_line that follows appends the next line to what was kept.
C20_FailedFlushKeepsBuffer ==
  [][ /\ (\/ ClientCall("flush_buffer") /\ last'.ret.kind = "Err"
          \/ pc = "flush" /\ result.kind # "Err" /\ result'.kind = "Err") =>
           (buffer' = buffer /\ out' = out)
      /\ (ClientCall("flush_buffer") /\ last'.ret = Ok) =>
           (buffer' = <<>> /\ Len(out') = Len(out) + 1)
      /\ ((ClientCall("read_line") \/ pc = "read") /\ Len(reads') = Len(reads) + 1) =>
           buffer' = buffer \o reads'[Len(reads')]
    ]_vars

\* The header's write failed in run; the client's read_line then appended
\* a line to the encoded header still in the buffer.
C20_Witness ==
  /\ result = Err("write")
  /\ last.op = "read_line"
  /\ last.ret.kind = "Ok"
  /\ Len(reads) = 2
  /\ reads[2] = << "[", NL >>
  /\ buffer = EncodeHeader(WithClickEvents(DecodeHeader(reads[1]).h)) \o << "[", NL >>

-----------------------------------------------------------------------------
(* Claims about the codecs *)

\* C16: for each of the tokens "right", "left" and "center" decoding gives
\* the matching variant and encoding that variant gives back the token
\* exactly; decoding any other string fails with an error naming the string.
C16_AlignmentRoundTrip ==
  /\ codec.op = "decode_alignment" =>
       /\ codec.text = "\"right\""  => (codec.res.ok /\ codec.res.v = "Right")
       /\ codec.text = "\"left\""   => (codec.res.ok /\ codec.res.v = "Left")
       /\ codec.text = "\"center\"" => (codec.res.ok /\ codec.res.v = "Center")
       /\ \A t \in AlignmentStrings \ {"right", "left", "center"} :
            codec.text = "\"" \o t \o "\"" =>
              /\ ~codec.res.ok
              /\ codec.res.err.quoted = t
              /\ codec.res.err.text = " is not a valid alignment"
  /\ codec.op = "encode_alignment" =>
       /\ codec.text \in {"\"right\"", "\"left\"", "\"center\""}
       /\ codec.out = codec.text

\* "center" was decoded and the variant encoded again.
C16_Witness ==
  /\ codec.op = "encode_alignment"
  /\ codec.text = "\"center\""
  /\ codec.v = "Center"
  /\ codec.out = "\"center\""

\* C17: for every header, with any combination of present and absent
\* stop_signal, cont_signal and click_events, decoding the encoding of the
\* header with click_events forced to true gives that header back, field
\* by field.
C17_HeaderRoundTrip ==
  codec.op = "decode_header" =>
    /\ codec.res.ok
    /\ codec.res.h.version = codec.orig.version
    /\ codec.res.h.stop_signal = codec.orig.stop_signal
    /\ codec.res.h.cont_signal = codec.orig.cont_signal
    /\ codec.res.h.click_events = Some(TRUE)
    /\ codec.res.h = WithClickEvents(codec.orig)

\* A header without stop_signal, with cont_signal and with click_events
\* false went through the round trip.
C17_Witness ==
  /\ codec.op = "decode_header"
  /\ codec.orig = [version |-> 1, stop_signal |-> None, cont_signal |-> Some(12),
                   click_events |-> Some(FALSE)]
  /\ codec.text = << "{", "\"version\":1", "\"stop_signal\":null", "\"cont_signal\":12",
                     "\"click_events\":true", "}" >>
  /\ codec.res.ok

====
